---- MODULE Spec2Model ----
(***************************************************************************)
(* Reservation core of lussoautostudio: the booking write path (book.js),  *)
(* the administrative cancel and move operations (admin/cancel.js,         *)
(* admin.js) and the slot read path (slots.js), over one shared            *)
(* reservation store.                                                      *)
(*                                                                         *)
(* Date strings.  The handlers receive dates as text and never normalise   *)
(* them; they are stored and compared (WHERE date = ?) as text.  A date    *)
(* string is modelled by the calendar day it denotes (days counted from a  *)
(* Sunday, so getUTCDay is day % 7) and by its spelling:                   *)
(*   "iso"     zero-padded YYYY-MM-DD of a real day      ("2026-11-07")    *)
(*   "alt"     another spelling of the same day that split("-") and        *)
(*             Number() read alike but the \d{4}-\d{2}-\d{2} test refuses  *)
(*             ("2026-11-7")                                               *)
(*   "invalid" matches \d{4}-\d{2}-\d{2} but new Date(...) is NaN          *)
(*             ("2026-13-45")                                              *)
(*   "junk"    non-empty text that is no date at all     ("soon")          *)
(*   "empty"   the empty string / absent field                             *)
(* Two date strings are the same text iff form and day agree.              *)
(***************************************************************************)
EXTENDS Integers, Sequences, FiniteSets, TLC

VARIABLES store,   \* the bookings table: rows in insertion order, row i has id i
          today,   \* the UTC calendar day of the clock (new Date())
          last,    \* the last request handled and the response it got
          procs    \* in-flight book.js requests (interleaved handling)

vars == <<store, today, last, procs>>

----------------------------------------------------------------------------
(* Program constants *)

OPEN_HOUR == 8
CLOSE_HOUR == 20
WINDOW_DAYS == 30
MIN_DURATION == 1
MAX_DURATION == 8

\* Number(x) of something that is no integer (NaN, 8.5, absent)
NaN == 0 - 1000

SERVICES ==
    [s \in {"Maintenance Wash", "Interior Deep Clean", "Full Detail"} |->
        CASE s = "Maintenance Wash" -> 1
          [] s = "Interior Deep Clean" -> 2
          [] s = "Full Detail" -> 4]

ADMIN_TOKEN == "secret"

----------------------------------------------------------------------------
(* Bounds of the model *)

MaxRows == 2       \* rows the store may hold
MaxProcs == 2      \* concurrent book.js requests in flight
MaxDay == 7        \* the last day the clock reaches
MaxHour == 24      \* the last hour an interval may end at

----------------------------------------------------------------------------
(* Date strings *)

DateStr(form, day) == [form |-> form, day |-> day]
Iso(day) == DateStr("iso", day)
Alt(day) == DateStr("alt", day)
InvalidDate == DateStr("invalid", 0)
JunkDate == DateStr("junk", 0)
EmptyDate == DateStr("empty", 0)

\* /^\d{4}-\d{2}-\d{2}$/.test(date)
DateRe(date) == date.form \in {"iso", "invalid"}

\* new Date(`${date}T00:00:00Z`): is the result a valid time value?
IsoParses(date) == date.form = "iso"

\* date.split("-").map(Number) then Date.UTC(y, m - 1, d): a finite time value?
SplitParses(date) == date.form \in {"iso", "alt"}

\* getUTCDay(): 0 = Sunday .. 6 = Saturday
UTCDay(day) == day % 7

\* a weekend test that every parsed date passes
isWeekendAlways(date) == SplitParses(date)

\* admin.js isWeekend(dateStr)
isWeekend(date) == SplitParses(date) /\ UTCDay(date.day) \in {0, 6}

\* a day difference without its sign
daysBetweenUTCAbs(a, b) == IF b < a THEN a - b ELSE b - a

\* admin.js daysBetweenUTC(a, b), in whole days
daysBetweenUTC(a, b) == b - a

\* the calendar day a stored date string denotes
DayOf(date) == date.day

----------------------------------------------------------------------------
(* Interval model *)

\* a test that also counts a shared endpoint
overlapClosed(aStart, aEnd, bStart, bEnd) == aStart <= bEnd /\ bStart <= aEnd

\* admin.js overlap(aStart, aEnd, bStart, bEnd)
overlap(aStart, aEnd, bStart, bEnd) == aStart < bEnd /\ bStart < aEnd

\* a test that would let intervals pass which share their first or last hour
overlapsStrictEnds(aStart, aEnd, bStart, bEnd) ==
    ~(aEnd <= bStart + 1 \/ aStart + 1 >= bEnd)

\* part_000 overlaps(aStart, aEnd, bStart, bEnd)
overlaps(aStart, aEnd, bStart, bEnd) == ~(aEnd <= bStart \/ aStart >= bEnd)

\* part_000 wouldOverlap(candidateStart, candidateEnd), over the rows read
wouldOverlap(existingBookings, candidateStart, candidateEnd) ==
    \E row \in existingBookings :
        candidateStart < row.end_hour /\ candidateEnd > row.start_hour

\* book.js: NOT (end_hour <= ? OR start_hour >= ?) bound to (start_hour, end_hour)
SqlOverlap(row, start_hour, end_hour) ==
    ~(row.end_hour <= start_hour \/ row.start_hour >= end_hour)

----------------------------------------------------------------------------
(* Responses *)

NoSlots == << >>
NoRow == [id |-> 0]

\* what the caller gets back: the HTTP status, the error text, and the id, the
\* slots, the reason and the bookings of the body (op names the handler that
\* answered; the bookings are the rows returned, without their order); moved
\* is the row a move read, notice what the notifier did
Response(op, code, error, id) ==
    [op |-> op, code |-> code, error |-> error, id |-> id,
     reason |-> "", slots |-> NoSlots, date |-> EmptyDate, duration_hours |-> 0,
     moved |-> NoRow, notice |-> "", bookings |-> {}]

NoRequest == Response("none", 0, "", 0)

Pass == "pass"

\* Number.isInteger(x)
IsInteger(x) == x # NaN

----------------------------------------------------------------------------
(* The reservation store *)

\* created_at is the day of the clock at the insert
Row(id, date, start_hour, duration_hours, end_hour, service, name, phone, vehicle, created_at) ==
    [id |-> id, date |-> date, start_hour |-> start_hour,
     duration_hours |-> duration_hours, end_hour |-> end_hour,
     service |-> service, name |-> name, phone |-> phone, vehicle |-> vehicle,
     status |-> "active", created_at |-> created_at]

Ids(st) == 1..Len(st)

\* a query without its status = 'active' condition
OnDateAnyStatus(st, date) == {i \in Ids(st) : st[i].date = date}

\* SELECT ... FROM bookings WHERE date = ? AND status = 'active'
ActiveOn(st, date) == {i \in Ids(st) : st[i].date = date /\ st[i].status = "active"}

\* crypto.randomUUID(): an id no row has
NewId(st) == Len(st) + 1

----------------------------------------------------------------------------
(* book.js onRequestPost *)

\* a weaker comparison, which refuses only a duration longer than expected
DurationMismatchOnlyLonger(duration_hours, expectedDuration) ==
    IsInteger(duration_hours) /\ duration_hours > expectedDuration

\* line 138: duration_hours !== expectedDuration
DurationMismatch(duration_hours, expectedDuration) ==
    duration_hours # expectedDuration

\* lines 128-160: the first failing validation, or Pass
BookValidate(b, day) ==
    IF ~DateRe(b.date) THEN "Missing or invalid date (expect YYYY-MM-DD)"
    ELSE IF ~IsInteger(b.start_hour) \/ b.start_hour < OPEN_HOUR
            \/ b.start_hour >= CLOSE_HOUR
        THEN "start_hour must be between 8 and 19"
    ELSE IF b.service \notin DOMAIN SERVICES THEN "Unknown service"
    ELSE IF DurationMismatch(b.duration_hours, SERVICES[b.service])
        THEN "Duration mismatch"
    ELSE IF b.start_hour + b.duration_hours > CLOSE_HOUR
        THEN "Booking would end past closing"
    ELSE IF b.name = "" THEN "Name is required"
    ELSE IF b.phone = "" THEN "Phone is required"
    ELSE IF b.vehicle = "" THEN "Vehicle is required"
    ELSE IF ~IsoParses(b.date) THEN "Invalid date"
    ELSE IF UTCDay(b.date.day) # 0 /\ UTCDay(b.date.day) # 6
        THEN "Bookings are only available on weekends"
    ELSE IF b.date.day - day < 0 THEN "Cannot book a date in the past"
    ELSE IF b.date.day - day > WINDOW_DAYS
        THEN "Bookings can only be made up to 30 days ahead"
    ELSE Pass

\* lines 164-168: SELECT COUNT(*) ... AND NOT (end_hour <= ? OR start_hour >= ?)
BookOverlapCount(st, b) ==
    Cardinality({i \in ActiveOn(st, b.date) :
        SqlOverlap(st[i], b.start_hour, b.start_hour + b.duration_hours)})

\* a handler that would run the overlap query before it validates the body
BookCheckReadFirst(st, day, b) ==
    LET v == BookValidate(b, day) IN
    IF b.fault = "read"
        THEN Response("book", 500, "Database error during overlap check", 0)
    ELSE IF v # Pass THEN Response("book", 400, v, 0)
    ELSE IF BookOverlapCount(st, b) > 0
        THEN Response("book", 409, "That time slot is no longer available", 0)
    ELSE Response("book", 0, Pass, 0)

\* lines 127-175: everything up to and including the overlap check
BookCheck(st, day, b) ==
    LET v == BookValidate(b, day) IN
    IF v # Pass THEN Response("book", 400, v, 0)
    ELSE IF b.fault = "read"
        THEN Response("book", 500, "Database error during overlap check", 0)
    ELSE IF BookOverlapCount(st, b) > 0
        THEN Response("book", 409, "That time slot is no longer available", 0)
    ELSE Response("book", 0, Pass, 0)

\* lines 178-187: the INSERT, with created_at read from the clock (line 179)
BookInsert(st, day, b) ==
    Append(st, Row(NewId(st), b.date, b.start_hour, b.duration_hours,
                   b.start_hour + b.duration_hours, b.service,
                   b.name, b.phone, b.vehicle, day))

\* what the notifier can meet: no RESEND_API_KEY / NOTIFY_EMAIL, a delivered
\* mail, a refusal of the mail service (a non-2xx answer), a fetch that throws
Notifier == {"unconfigured", "sent", "refused", "threw"}

\* a sender without the try/catch of lines 84-102: the exception of fetch escapes
sendBookingEmailUncaught(notify) ==
    IF notify = "unconfigured" THEN "skipped"
    ELSE IF notify = "threw" THEN "raised"
    ELSE notify

\* lines 53-103 sendBookingEmail: what it leaves behind ("raised" would be an
\* exception reaching the caller)
sendBookingEmail(notify) ==
    IF notify = "unconfigured" THEN "skipped"
    ELSE IF notify = "threw" THEN "logged"
    ELSE notify

\* an insert that would run the overlap query once more and refuse on a hit
BookCommitRechecks(st, day, b) ==
    IF BookOverlapCount(st, b) > 0
        THEN [store |-> st,
              resp |-> Response("book", 409,
                                "That time slot is no longer available", 0)]
        ELSE [store |-> BookInsert(st, day, b),
              resp |-> [Response("book", 201, "", NewId(st))
                            EXCEPT !.notice = sendBookingEmail(b.notify)]]

\* an insert that fails after the row has been written
BookCommitPartialWrite(st, day, b) ==
    IF b.fault = "write"
        THEN [store |-> BookInsert(st, day, b),
              resp |-> Response("book", 500, "Failed to save booking", 0)]
        ELSE [store |-> BookInsert(st, day, b),
              resp |-> [Response("book", 201, "", NewId(st))
                            EXCEPT !.notice = sendBookingEmail(b.notify)]]

\* lines 177-195: insert, notify, respond
BookCommit(st, day, b) ==
    IF b.fault = "write"
        THEN [store |-> st, resp |-> Response("book", 500, "Failed to save booking", 0)]
    ELSE LET notice == sendBookingEmail(b.notify) IN
         IF notice = "raised"
            THEN [store |-> BookInsert(st, day, b),
                  resp |-> [Response("book", 500, "exception", 0)
                                EXCEPT !.notice = notice]]
            ELSE [store |-> BookInsert(st, day, b),
                  resp |-> [Response("book", 201, "", NewId(st))
                                EXCEPT !.notice = notice]]

\* lines 109-196: one request handled without interleaving
BookResult(st, day, b) ==
    LET chk == BookCheck(st, day, b) IN
    IF chk.error # Pass THEN [store |-> st, resp |-> chk]
                        ELSE BookCommit(st, day, b)

Book(b) ==
    LET res == BookResult(store, today, b) IN
    /\ store' = res.store
    /\ last' = res.resp
    /\ UNCHANGED <<today, procs>>

----------------------------------------------------------------------------
(* admin/cancel.js onRequestPost (lines 73-106) *)

\* lines 75-78: the token check
CancelAuthorized(token) == token # "" /\ token = ADMIN_TOKEN

\* lines 93-95: UPDATE bookings SET status = 'cancelled' WHERE id = ? AND status = 'active'
CancelMatches(st, id) == {i \in Ids(st) : st[i].id = id /\ st[i].status = "active"}

\* an update that would also write 'active' into the rows it does not match
SetCancelledResetOthers(st, rows) ==
    [i \in Ids(st) |-> [st[i] EXCEPT !.status =
                            IF i \in rows THEN "cancelled" ELSE "active"]]

\* lines 93-95: SET status = 'cancelled' on the matching rows, the others untouched
SetCancelled(st, rows) ==
    [i \in Ids(st) |-> IF i \in rows THEN [st[i] EXCEPT !.status = "cancelled"]
                                     ELSE st[i]]

CancelPostResult(st, r) ==
    IF ~CancelAuthorized(r.token)
        THEN [store |-> st, resp |-> Response("cancel", 401, "Unauthorized", 0)]
    ELSE IF r.id = 0
        THEN [store |-> st, resp |-> Response("cancel", 400, "Missing booking id", 0)]
    ELSE IF r.fault # "none"
        THEN [store |-> st,
              resp |-> Response("cancel", 500,
                                "A server error occurred. Please try again.", 0)]
    ELSE LET changes == CancelMatches(st, r.id) IN
         IF Cardinality(changes) = 0
            THEN [store |-> st,
                  resp |-> Response("cancel", 404,
                                    "Booking not found or already cancelled", 0)]
            ELSE [store |-> SetCancelled(st, changes),
                  resp |-> Response("cancel", 200, "", r.id)]

CancelPost(r) ==
    LET res == CancelPostResult(store, r) IN
    /\ store' = res.store
    /\ last' = res.resp
    /\ UNCHANGED <<today, procs>>

----------------------------------------------------------------------------
(* admin/cancel.js onRequestPost, the first handler of the file (lines     *)
(* 23-47): no token is read                                                *)

CancelPostV1Result(st, r) ==
    IF r.id = 0
        THEN [store |-> st, resp |-> Response("cancel_v1", 400, "Missing booking id", 0)]
    ELSE IF r.fault # "none"
        THEN [store |-> st, resp |-> Response("cancel_v1", 500, "Database error", 0)]
    ELSE LET changes == CancelMatches(st, r.id) IN
         IF Cardinality(changes) = 0
            THEN [store |-> st,
                  resp |-> Response("cancel_v1", 404,
                                    "Booking not found or already cancelled", 0)]
            ELSE [store |-> SetCancelled(st, changes),
                  resp |-> Response("cancel_v1", 200, "", r.id)]

CancelPostV1(r) ==
    LET res == CancelPostV1Result(store, r) IN
    /\ store' = res.store
    /\ last' = res.resp
    /\ UNCHANGED <<today, procs>>

----------------------------------------------------------------------------
(* The listings: admin/bookings.js and admin/AdminBooking.js onRequestGet  *)

\* SELECT ... FROM bookings: every row
AllRows(st) == {st[i] : i \in Ids(st)}

\* SELECT * FROM bookings WHERE date = ?
RowsOn(st, date) == {st[i] : i \in {j \in Ids(st) : st[j].date = date}}

\* admin/bookings.js lines 33-59
BookingsResult(st, r) ==
    IF ~CancelAuthorized(r.token) THEN Response("bookings", 401, "Unauthorized", 0)
    ELSE IF r.fault # "none"
        THEN Response("bookings", 500, "A server error occurred. Please try again.", 0)
    ELSE [Response("bookings", 200, "", 0) EXCEPT !.bookings = AllRows(st)]

Bookings(r) ==
    /\ last' = BookingsResult(store, r)
    /\ UNCHANGED <<store, today, procs>>

\* admin/AdminBooking.js lines 27-40: no token is read
AdminBookingResult(st, r) ==
    IF r.fault # "none" THEN Response("admin_booking", 500, "Database error", 0)
    ELSE [Response("admin_booking", 200, "", 0) EXCEPT !.bookings = AllRows(st)]

AdminBooking(r) ==
    /\ last' = AdminBookingResult(store, r)
    /\ UNCHANGED <<store, today, procs>>

----------------------------------------------------------------------------
(* admin.js onRequest *)

\* lines 8-16
requireAdmin(token) == ADMIN_TOKEN # "" /\ token = ADMIN_TOKEN

\* lines 36-57: GET, the bookings of a date or all bookings
AdminListResult(st, r) ==
    IF ~requireAdmin(r.token) THEN Response("admin_list", 401, "Unauthorized", 0)
    ELSE IF r.fault # "none" THEN Response("admin_list", 500, "exception", 0)
    ELSE [Response("admin_list", 200, "", 0) EXCEPT
            !.bookings = IF r.date.form # "empty" THEN RowsOn(st, r.date)
                                                  ELSE AllRows(st)]

AdminList(r) ==
    /\ last' = AdminListResult(store, r)
    /\ UNCHANGED <<store, today, procs>>

\* lines 75-77: UPDATE bookings SET status='cancelled' WHERE id=?
AdminCancelMatches(st, id) == {i \in Ids(st) : st[i].id = id}

\* lines 70-80: action "cancel"
AdminCancelResult(st, r) ==
    IF ~requireAdmin(r.token)
        THEN [store |-> st, resp |-> Response("admin_cancel", 401, "Unauthorized", 0)]
    ELSE IF r.id = 0
        THEN [store |-> st, resp |-> Response("admin_cancel", 400, "Missing id", 0)]
    ELSE IF r.fault # "none"
        THEN [store |-> st, resp |-> Response("admin_cancel", 500, "exception", 0)]
    ELSE [store |-> SetCancelled(st, AdminCancelMatches(st, r.id)),
          resp |-> Response("admin_cancel", 200, "", 0)]

AdminCancel(r) ==
    LET res == AdminCancelResult(store, r) IN
    /\ store' = res.store
    /\ last' = res.resp
    /\ UNCHANGED <<today, procs>>

\* a weaker test, on the start hour alone
OutsideHoursByStart(start_hour, end_hour) ==
    start_hour < OPEN_HOUR \/ start_hour >= CLOSE_HOUR

\* line 116: start_hour < OPEN_HOUR || end_hour > CLOSE_HOUR
OutsideHours(start_hour, end_hour) ==
    start_hour < OPEN_HOUR \/ end_hour > CLOSE_HOUR

\* a scan without line 126, which counts the moved row itself
MoveConflictWithSelf(st, id, date, start_hour, end_hour) ==
    \E i \in ActiveOn(st, date) :
        overlap(start_hour, end_hour, st[i].start_hour, st[i].end_hour)

\* lines 121-130: the scan of the active rows of the target date
MoveConflict(st, id, date, start_hour, end_hour) ==
    \E i \in ActiveOn(st, date) :
        /\ st[i].id # id
        /\ overlap(start_hour, end_hour, st[i].start_hour, st[i].end_hour)

\* an update without its WHERE id=?
MoveUpdateEveryRow(st, id, date, start_hour, end_hour) ==
    [i \in Ids(st) |->
        [st[i] EXCEPT !.date = date, !.start_hour = start_hour,
                      !.end_hour = end_hour]]

\* an update that would leave end_hour as it was
MoveUpdateKeepsEnd(st, id, date, start_hour, end_hour) ==
    [i \in Ids(st) |->
        IF st[i].id = id
            THEN [st[i] EXCEPT !.date = date, !.start_hour = start_hour]
            ELSE st[i]]

\* lines 132-134: UPDATE bookings SET date=?, start_hour=?, end_hour=? WHERE id=?
MoveUpdate(st, id, date, start_hour, end_hour) ==
    [i \in Ids(st) |->
        IF st[i].id = id
            THEN [st[i] EXCEPT !.date = date, !.start_hour = start_hour,
                               !.end_hour = end_hour]
            ELSE st[i]]

\* lines 82-118: the tests of the request, the read of the booking (lines
\* 104-106) and the tests of its status and of the new hours; on success the
\* booking read is returned in moved
MoveCheck(st, day, r) ==
    LET reject(code, error) == Response("move", code, error, 0) IN
    IF ~requireAdmin(r.token) THEN reject(401, "Unauthorized")
    ELSE IF r.id = 0 \/ r.date.form = "empty" \/ ~IsInteger(r.start_hour)
        THEN reject(400, "Missing fields")
    ELSE IF ~isWeekend(r.date) THEN reject(400, "Weekend bookings only.")
    ELSE IF daysBetweenUTC(day, r.date.day) < 0
            \/ daysBetweenUTC(day, r.date.day) > WINDOW_DAYS
        THEN reject(400, "Must be within 30 days.")
    ELSE IF r.fault = "read" THEN reject(500, "exception")
    ELSE IF r.id \notin Ids(st) THEN reject(404, "Booking not found.")
    ELSE LET booking == st[r.id] IN
         IF booking.status # "active"
            THEN reject(400, "Only active bookings can be moved.")
         ELSE IF OutsideHours(r.start_hour, r.start_hour + booking.duration_hours)
            THEN reject(400, "Outside business hours.")
         ELSE [reject(0, Pass) EXCEPT !.moved = booking]

\* lines 120-130: the read of the active rows of the target date and the
\* overlap loop, for the booking read before
MoveScanCheck(st, r, booking) ==
    IF MoveConflict(st, r.id, r.date, r.start_hour,
                    r.start_hour + booking.duration_hours)
        THEN Response("move", 409, "Target time is already booked.", 0)
        ELSE Response("move", 0, Pass, 0)

\* lines 132-136: the UPDATE and the response
MoveCommit(st, r, booking) ==
    IF r.fault = "write"
        THEN [store |-> st, resp |-> Response("move", 500, "exception", 0)]
        ELSE [store |-> MoveUpdate(st, r.id, r.date, r.start_hour,
                                   r.start_hour + booking.duration_hours),
              resp |-> [Response("move", 200, "", 0) EXCEPT !.moved = booking]]

\* lines 82-137: action "move", handled without interleaving
MoveResult(st, day, r) ==
    LET chk == MoveCheck(st, day, r) IN
    IF chk.error # Pass THEN [store |-> st, resp |-> chk]
    ELSE LET scan == MoveScanCheck(st, r, chk.moved) IN
         IF scan.error # Pass THEN [store |-> st, resp |-> scan]
                              ELSE MoveCommit(st, r, chk.moved)

Move(r) ==
    LET res == MoveResult(store, today, r) IN
    /\ store' = res.store
    /\ last' = res.resp
    /\ UNCHANGED <<today, procs>>

----------------------------------------------------------------------------
(* slots.js onRequestGet (lines 58-148) *)

\* lines 116-121: the hours some active booking of the date occupies
occupiedHours(st, date) ==
    UNION {st[i].start_hour .. (st[i].end_hour - 1) : i \in ActiveOn(st, date)}

\* a slot whose end_hour would be cut at closing time, as its end_label is
SlotEndCapped(h, duration_hours, isOccupied) ==
    [start_hour |-> h,
     end_hour |-> IF h + duration_hours > CLOSE_HOUR THEN CLOSE_HOUR
                                                     ELSE h + duration_hours,
     status |-> IF isOccupied \/ ~(h + duration_hours <= CLOSE_HOUR)
                   THEN "booked" ELSE "available"]

\* lines 136-144: the slot pushed for start hour h
Slot(h, duration_hours, isOccupied) ==
    [start_hour |-> h, end_hour |-> h + duration_hours,
     status |-> IF isOccupied \/ ~(h + duration_hours <= CLOSE_HOUR)
                   THEN "booked" ELSE "available"]

\* line 134: the slots the loop skips
Dropped(h, duration_hours, isOccupied) ==
    ~(h + duration_hours <= CLOSE_HOUR) /\ ~isOccupied

\* a loop that would push every start hour, with a status decided by the
\* occupied hours alone
RECURSIVE BuildSlotsByOccupancy(_, _, _)
BuildSlotsByOccupancy(h, duration_hours, occupied) ==
    IF ~(h < CLOSE_HOUR) THEN << >>
    ELSE <<[start_hour |-> h, end_hour |-> h + duration_hours,
            status |-> IF h \in occupied THEN "booked" ELSE "available"]>>
            \o BuildSlotsByOccupancy(h + 1, duration_hours, occupied)

\* lines 127-145: the loop over h = OPEN_HOUR .. CLOSE_HOUR - 1
RECURSIVE BuildSlots(_, _, _)
BuildSlots(h, duration_hours, occupied) ==
    IF ~(h < CLOSE_HOUR) THEN << >>
    ELSE IF Dropped(h, duration_hours, h \in occupied)
        THEN BuildSlots(h + 1, duration_hours, occupied)
    ELSE <<Slot(h, duration_hours, h \in occupied)>>
            \o BuildSlots(h + 1, duration_hours, occupied)

SlotsResponse(code, error, reason, slots, date, duration_hours) ==
    [op |-> "slots", code |-> code, error |-> error, id |-> 0,
     reason |-> reason, slots |-> slots, date |-> date,
     duration_hours |-> duration_hours, moved |-> NoRow, notice |-> "",
     bookings |-> {}]

\* a window one day longer than that of line 93
SlotsPolicyLongWindow(date, day) ==
    IF UTCDay(date.day) # 0 /\ UTCDay(date.day) # 6 THEN "weekday"
    ELSE IF date.day - day < 0 THEN "past"
    ELSE IF date.day - day > WINDOW_DAYS + 1 THEN "too_far"
    ELSE ""

\* lines 79-95: the reason a parsed date gets no slots, "" if it gets them
SlotsPolicy(date, day) ==
    IF UTCDay(date.day) # 0 /\ UTCDay(date.day) # 6 THEN "weekday"
    ELSE IF date.day - day < 0 THEN "past"
    ELSE IF date.day - day > WINDOW_DAYS THEN "too_far"
    ELSE ""

\* a catch that would answer a failed read with an empty slot list
SlotsFaultAsEmpty(q) ==
    SlotsResponse(200, "", "", NoSlots, q.date, q.duration_hours)

\* lines 108-111: the catch of the store read
SlotsFault(q) ==
    SlotsResponse(500, "A server error occurred. Please try again.", "",
                  NoSlots, EmptyDate, 0)

\* lines 58-148
SlotsResult(st, day, q) ==
    IF ~DateRe(q.date)
        THEN SlotsResponse(400, "Missing or invalid date (expect YYYY-MM-DD)", "",
                           NoSlots, EmptyDate, 0)
    ELSE IF ~IsInteger(q.duration_hours) \/ q.duration_hours < MIN_DURATION
            \/ q.duration_hours > MAX_DURATION
        THEN SlotsResponse(400, "duration_hours must be an integer 1-8", "",
                           NoSlots, EmptyDate, 0)
    ELSE IF ~IsoParses(q.date)
        THEN SlotsResponse(400, "Invalid date", "", NoSlots, EmptyDate, 0)
    ELSE IF SlotsPolicy(q.date, day) # ""
        THEN SlotsResponse(200, "", SlotsPolicy(q.date, day), NoSlots, EmptyDate, 0)
    ELSE IF q.fault # "none" THEN SlotsFault(q)
    ELSE SlotsResponse(200, "", "",
                       BuildSlots(OPEN_HOUR, q.duration_hours,
                                  occupiedHours(st, q.date)),
                       q.date, q.duration_hours)

Slots(q) ==
    /\ last' = SlotsResult(store, today, q)
    /\ UNCHANGED <<store, today, procs>>

----------------------------------------------------------------------------
(* slots.js onRequestGet, the second handler of the file (lines 166-236);  *)
(* the runtime's local time zone is UTC                                    *)

\* lines 166-170: new Date(`${dateStr}T00:00:00`).getUTCDay() is 0 or 6
isWeekendV2(date) == IsoParses(date) /\ UTCDay(date.day) \in {0, 6}

\* lines 221-226: overlaps(s, e) against the active rows of the date
overlapsV2(st, date, s, e) ==
    \E i \in ActiveOn(st, date) : ~(e <= st[i].start_hour \/ s >= st[i].end_hour)

\* lines 228-233: for (start = open; start + duration <= close; start++)
RECURSIVE BuildSlotsV2(_, _, _, _)
BuildSlotsV2(st, date, start, duration) ==
    IF ~(start + duration <= CLOSE_HOUR) THEN << >>
    ELSE <<[start_hour |-> start, end_hour |-> start + duration,
            status |-> IF overlapsV2(st, date, start, start + duration)
                          THEN "booked" ELSE "available"]>>
            \o BuildSlotsV2(st, date, start + 1, duration)

\* lines 178-236; the store read of lines 209-214 is not in a try block, so a
\* failed read leaves the handler as an exception and the runtime answers 500
SlotsResultV2(st, day, q) ==
    LET answer(code, error, slots) ==
            [SlotsResponse(code, error, "", slots, q.date, q.duration_hours)
                EXCEPT !.op = "slots_v2"]
    IN
    IF q.date.form = "empty" \/ ~IsInteger(q.duration_hours)
            \/ q.duration_hours < MIN_DURATION \/ q.duration_hours > MAX_DURATION
        THEN answer(400, "Missing/invalid date or duration_hours", NoSlots)
    ELSE IF ~isWeekendV2(q.date) THEN answer(200, "", NoSlots)
    ELSE IF q.date.day - day < 0 \/ q.date.day - day > WINDOW_DAYS
        THEN answer(400, "Date out of allowed range (next 30 days)", NoSlots)
    ELSE IF q.fault # "none" THEN answer(500, "exception", NoSlots)
    ELSE answer(200, "", BuildSlotsV2(st, q.date, OPEN_HOUR, q.duration_hours))

SlotsV2(q) ==
    /\ last' = SlotsResultV2(store, today, q)
    /\ UNCHANGED <<store, today, procs>>

----------------------------------------------------------------------------
(* Interleaved handling of book.js requests: the overlap-check read (line  *)
(* 164) and the INSERT (line 182) are separate awaits, and the store is    *)
(* the only thing requests share.                                          *)

Idle == [pc |-> "idle"]

\* lines 109-175 of one request: validation and the overlap-check read
BookBegin(p, b) ==
    LET chk == BookCheck(store, today, b) IN
    /\ procs[p].pc = "idle"
    /\ IF chk.error # Pass
          THEN /\ last' = chk
               /\ procs' = procs
          ELSE /\ last' = last
               /\ procs' = [procs EXCEPT ![p] = [pc |-> "insert", b |-> b]]
    /\ UNCHANGED <<store, today>>

\* lines 177-195 of the same request: the INSERT and the response
BookEnd(p) ==
    /\ procs[p].pc = "insert"
    /\ LET c == BookCommit(store, today, procs[p].b) IN
        /\ store' = c.store
        /\ last' = c.resp
    /\ procs' = [procs EXCEPT ![p] = Idle]
    /\ UNCHANGED today

(* Interleaved handling of admin.js moves: the read of the booking (line   *)
(* 104), the read of the target date's active rows (line 121) and the      *)
(* UPDATE (line 132) are three awaits.                                     *)

\* lines 82-118 of one move: the tests and the read of the booking
MoveBegin(p, r) ==
    LET chk == MoveCheck(store, today, r) IN
    /\ procs[p].pc = "idle"
    /\ IF chk.error # Pass
          THEN /\ last' = chk
               /\ procs' = procs
          ELSE /\ last' = last
               /\ procs' = [procs EXCEPT
                                ![p] = [pc |-> "scan", r |-> r, booking |-> chk.moved]]
    /\ UNCHANGED <<store, today>>

\* lines 120-130 of the same move: the read of the date's active rows
MoveScan(p) ==
    /\ procs[p].pc = "scan"
    /\ LET scan == MoveScanCheck(store, procs[p].r, procs[p].booking) IN
        IF scan.error # Pass
          THEN /\ last' = scan
               /\ procs' = [procs EXCEPT ![p] = Idle]
          ELSE /\ last' = last
               /\ procs' = [procs EXCEPT ![p].pc = "update"]
    /\ UNCHANGED <<store, today>>

\* lines 132-136 of the same move: the UPDATE and the response
MoveEnd(p) ==
    /\ procs[p].pc = "update"
    /\ LET c == MoveCommit(store, procs[p].r, procs[p].booking) IN
        /\ store' = c.store
        /\ last' = c.resp
    /\ procs' = [procs EXCEPT ![p] = Idle]
    /\ UNCHANGED today

InFlight == Cardinality({p \in DOMAIN procs : procs[p].pc = "insert"})

----------------------------------------------------------------------------
(* Requests the environment sends *)

Faults == {"none", "read", "write"}
Tokens == {ADMIN_TOKEN, "wrong", ""}

\* Friday 5 is the first day of the clock: Saturday 6 and Sunday 35 (30 days
\* ahead) are bookable, Sunday 0 is past, Wednesday 3 a weekday, Saturday 41 too far
GoodDates == {Iso(6), Iso(35)}
BadDates == {Iso(0), Iso(3), Iso(41), InvalidDate, JunkDate, EmptyDate}
GoodHours == {16, 17}
BadHours == {NaN, 7, 20}
Names == {"", "Ann"}

BookRequests ==
    [date : GoodDates \cup BadDates,
     start_hour : GoodHours \cup BadHours,
     service : DOMAIN SERVICES \cup {"Ceramic Coating"},
     duration_hours : {NaN, 1, 2, 3, 4},
     name : Names, phone : Names, vehicle : Names,
     fault : Faults, notify : Notifier]

AdminRequests ==
    [token : Tokens, id : 0..MaxRows, fault : {"none", "read"}]

MoveRequests ==
    [token : Tokens, id : 0..MaxRows,
     date : GoodDates \cup {Alt(6)} \cup BadDates,
     start_hour : GoodHours \cup BadHours,
     fault : Faults]

SlotQueries ==
    [date : GoodDates \cup BadDates,
     duration_hours : {NaN} \cup ((MIN_DURATION - 1)..(MAX_DURATION + 1)),
     fault : {"none", "read"}]

----------------------------------------------------------------------------
(* Sequential handling: each request runs to completion before the next.   *)
(* The bookings, cancels and moves are those of one Saturday, whose date    *)
(* an administrator may spell in two ways.                                  *)

Init ==
    /\ store = << >>
    /\ today = 5
    /\ last = NoRequest
    /\ procs = [p \in 1..MaxProcs |-> Idle]

\* well-formed requests of customers and of an authorized administrator
BookCore ==
    {[date |-> d, start_hour |-> h, service |-> sv, duration_hours |-> SERVICES[sv],
      name |-> "Ann", phone |-> "Ann", vehicle |-> "Ann", fault |-> "none",
      notify |-> "sent"] :
        d \in GoodDates, h \in GoodHours, sv \in DOMAIN SERVICES}
AdminCore == [token : {ADMIN_TOKEN}, id : 1..MaxRows, fault : {"none"}]
MoveCore ==
    [token : {ADMIN_TOKEN}, id : 1..MaxRows, date : GoodDates \cup {Alt(6)},
     start_hour : GoodHours \cup {7}, fault : {"none"}]
SlotCore ==
    [date : GoodDates, duration_hours : MIN_DURATION..MAX_DURATION, fault : {"none"}]

\* the requests that concern Saturday 6, under either spelling of its date
SlotDay == Iso(6)
DayBookings == {c \in BookCore : c.date = SlotDay}
DayMoves == {m \in MoveCore : DayOf(m.date) = DayOf(SlotDay)}

Next ==
    \/ \E b \in DayBookings : Len(store) < MaxRows /\ Book(b)
    \/ \E r \in AdminCore : CancelPost(r)
    \/ \E r \in AdminCore : AdminCancel(r)
    \/ \E r \in DayMoves : Move(r)

Spec == Init /\ [][Next]_vars

----------------------------------------------------------------------------
(* The read path next to the write path: slot queries for Saturday 6       *)
(* between bookings, moves and cancels of that day                         *)

DayQueries == {c \in SlotCore : c.date = SlotDay}

NextSlots ==
    \/ \E b \in DayBookings : Len(store) < MaxRows /\ Book(b)
    \/ \E r \in AdminCore : CancelPost(r)
    \/ \E r \in DayMoves : Move(r)
    \/ \E q \in DayQueries : Slots(q)

SpecSlots == Init /\ [][NextSlots]_vars

----------------------------------------------------------------------------
(* The validation sequence of book.js on every combination of field values *)

ValidateRequests ==
    [date : {Iso(6), Iso(0), Iso(3), Iso(41), InvalidDate, JunkDate},
     start_hour : GoodHours \cup BadHours,
     service : DOMAIN SERVICES \cup {"Ceramic Coating"},
     duration_hours : {NaN, 1, 2, 3, 4},
     name : Names, phone : Names, vehicle : Names,
     fault : {"none"}, notify : {"sent"}]

NextValidate ==
    \/ \E b \in ValidateRequests : Len(store) < MaxRows /\ Book(b)
    \/ \E r \in AdminCore : CancelPost(r)

SpecValidate == Init /\ [][NextValidate]_vars

----------------------------------------------------------------------------
(* Rejections: the bookings and moves of Saturday 6 with a failing read or  *)
(* write of the store, or with one field that fails a validation step      *)

FaultBookings == {[b EXCEPT !.fault = f] : b \in DayBookings, f \in Faults}
FaultMoves == {[m EXCEPT !.fault = f] : m \in DayMoves, f \in Faults}
DefectBookings ==
    {[b EXCEPT !.date = d] : b \in DayBookings, d \in {JunkDate, Iso(3), Iso(41)}}
        \cup {[b EXCEPT !.duration_hours = 3] : b \in DayBookings}
        \cup {[b EXCEPT !.vehicle = ""] : b \in DayBookings}
DefectMoves ==
    {[m EXCEPT !.date = d] : m \in DayMoves, d \in {Iso(0), Iso(3), EmptyDate}}
        \cup {[m EXCEPT !.id = 0] : m \in DayMoves}

NextFaults ==
    \/ \E b \in FaultBookings \cup DefectBookings : Len(store) < MaxRows /\ Book(b)
    \/ \E r \in AdminCore : CancelPost(r)
    \/ \E r \in FaultMoves \cup DefectMoves : Move(r)

SpecFaults == Init /\ [][NextFaults]_vars

----------------------------------------------------------------------------
(* The notifier: the bookings of Saturday 6 under every notifier outcome   *)

NotifiedBookings ==
    {[b EXCEPT !.fault = f, !.notify = n] :
        b \in DayBookings, f \in {"none", "write"}, n \in Notifier}

NextNotify ==
    \/ \E b \in NotifiedBookings : Len(store) < MaxRows /\ Book(b)
    \/ \E r \in AdminCore : CancelPost(r)

SpecNotify == Init /\ [][NextNotify]_vars

----------------------------------------------------------------------------
(* Slot queries with a failing store read, to both slot handlers, for a    *)
(* bookable Saturday and for a Wednesday                                   *)

FaultQueries ==
    [date : {SlotDay, Iso(3)}, duration_hours : {1, 4}, fault : {"none", "read"}]

NextRead ==
    \/ \E b \in DayBookings : Len(store) < MaxRows /\ Book(b)
    \/ \E r \in AdminCore : CancelPost(r)
    \/ \E q \in FaultQueries : Slots(q)
    \/ \E q \in FaultQueries : SlotsV2(q)

SpecRead == Init /\ [][NextRead]_vars

----------------------------------------------------------------------------
(* The calendar policy while the clock advances from Thursday 4: today + 30 *)
(* is Saturday 34 on Thursday and Sunday 35 on Friday, and Saturday 6 is    *)
(* past on Sunday 7                                                         *)

\* new Date() of a later request: midnight UTC has passed
Tick ==
    /\ today < MaxDay
    /\ today' = today + 1
    /\ UNCHANGED <<store, last, procs>>

InitCalendar ==
    /\ store = << >>
    /\ today = 4
    /\ last = NoRequest
    /\ procs = [p \in 1..MaxProcs |-> Idle]

CalendarDates == {Iso(0), Iso(3), Iso(6), Iso(10), Iso(35), Iso(41)}

CalendarBookings ==
    {[date |-> d, start_hour |-> 16, service |-> sv, duration_hours |-> SERVICES[sv],
      name |-> "Ann", phone |-> "Ann", vehicle |-> "Ann", fault |-> "none",
      notify |-> "sent"] :
        d \in CalendarDates, sv \in {"Full Detail"}}
CalendarMoves ==
    [token : {ADMIN_TOKEN}, id : 1..MaxRows, date : CalendarDates \cup {Alt(6)},
     start_hour : {7, 16, 17}, fault : {"none"}]
CalendarQueries ==
    [date : CalendarDates, duration_hours : {1, 4}, fault : {"none"}]

NextCalendar ==
    \/ Tick
    \/ \E b \in CalendarBookings : Len(store) < MaxRows /\ Book(b)
    \/ \E r \in CalendarMoves : Move(r)
    \/ \E q \in CalendarQueries : Slots(q)

SpecCalendar == InitCalendar /\ [][NextCalendar]_vars

----------------------------------------------------------------------------
(* The administrative entry points with a right, a wrong and no token      *)

AuthMoves == {[m EXCEPT !.token = t] : m \in DayMoves, t \in Tokens}
ListRequests ==
    [token : Tokens, date : {EmptyDate, SlotDay}, fault : {"none", "read"}]

NextAuth ==
    \/ \E b \in DayBookings : Len(store) < MaxRows /\ Book(b)
    \/ \E r \in AdminRequests : CancelPost(r)
    \/ \E r \in AdminRequests : CancelPostV1(r)
    \/ \E r \in AdminRequests : AdminCancel(r)
    \/ \E r \in AuthMoves : Move(r)
    \/ \E r \in ListRequests : AdminList(r)
    \/ \E r \in ListRequests : Bookings(r)
    \/ \E r \in ListRequests : AdminBooking(r)

SpecAuth == Init /\ [][NextAuth]_vars

----------------------------------------------------------------------------
(* Malformed input: bookings and slot queries with one malformed field,    *)
(* sent while the store works and while its reads or writes fail           *)

MalformedDates == {JunkDate, EmptyDate, Alt(6), InvalidDate}

MalformedBookings ==
    {[b EXCEPT !.date = d, !.fault = f] :
        b \in DayBookings, d \in MalformedDates, f \in Faults}
    \cup {[b EXCEPT !.start_hour = h, !.fault = f] :
        b \in DayBookings, h \in BadHours, f \in Faults}
    \cup {[b EXCEPT !.service = "Ceramic Coating", !.fault = f] :
        b \in DayBookings, f \in Faults}
    \cup {[b EXCEPT !.duration_hours = n, !.fault = f] :
        b \in DayBookings, n \in {NaN, MIN_DURATION - 1, MAX_DURATION + 1},
        f \in Faults}

MalformedQueries ==
    [date : MalformedDates, duration_hours : {NaN, 1, 4},
     fault : {"none", "read"}]
    \cup [date : {SlotDay},
          duration_hours : {NaN, MIN_DURATION - 1, MAX_DURATION + 1},
          fault : {"none", "read"}]

NextMalformed ==
    \/ \E b \in DayBookings \cup MalformedBookings :
          Len(store) < MaxRows /\ Book(b)
    \/ \E r \in AdminCore : CancelPost(r)
    \/ \E q \in FaultQueries \cup MalformedQueries : Slots(q)

SpecMalformed == Init /\ [][NextMalformed]_vars

----------------------------------------------------------------------------
(* Interleaved booking submissions *)

NextRace ==
    \/ \E p \in DOMAIN procs, b \in BookCore :
          Len(store) + InFlight < MaxRows /\ BookBegin(p, b)
    \/ \E p \in DOMAIN procs : BookEnd(p)

SpecRace == Init /\ [][NextRace]_vars

----------------------------------------------------------------------------
(* Moves interleaved with one booking submission, with other moves and     *)
(* with cancels, all one-hour reservations of Saturday 6 in its canonical  *)
(* spelling; at most one booking submission is in flight at a time         *)

RaceBookings == {b \in DayBookings : b.service = "Maintenance Wash"}
RaceMoves ==
    [token : {ADMIN_TOKEN}, id : 1..MaxRows, date : {SlotDay},
     start_hour : GoodHours, fault : {"none"}]

NextMoveRace ==
    \/ \E p \in DOMAIN procs, b \in RaceBookings :
          InFlight = 0 /\ Len(store) < MaxRows /\ BookBegin(p, b)
    \/ \E p \in DOMAIN procs : BookEnd(p)
    \/ \E p \in DOMAIN procs, r \in RaceMoves : MoveBegin(p, r)
    \/ \E p \in DOMAIN procs : MoveScan(p)
    \/ \E p \in DOMAIN procs : MoveEnd(p)
    \/ \E r \in AdminCore : CancelPost(r)

SpecMoveRace == Init /\ [][NextMoveRace]_vars

----------------------------------------------------------------------------
(* Cancels between bookings, moves and slot queries for Saturday 6 in its  *)
(* canonical spelling                                                      *)

FreeMoves == {m \in DayMoves : m.date = SlotDay}
FreeQueries == {q \in DayQueries : q.duration_hours \in {1, 2}}

NextFree ==
    \/ \E b \in DayBookings : Len(store) < MaxRows /\ Book(b)
    \/ \E r \in AdminCore : CancelPost(r)
    \/ \E r \in FreeMoves : Move(r)
    \/ \E q \in FreeQueries : Slots(q)

SpecFree == Init /\ [][NextFree]_vars

----------------------------------------------------------------------------
(* The commit steps: one booking submission and moves to 16:00 in flight   *)
(* together.  The handling slots are interchangeable, so a new request     *)
(* takes the lowest idle one.                                              *)

LowestIdle(p) ==
    /\ procs[p].pc = "idle"
    /\ \A q \in DOMAIN procs : q < p => procs[q].pc # "idle"

GateMoves == {r \in RaceMoves : r.start_hour = 16}

NextGate ==
    \/ \E p \in DOMAIN procs, b \in RaceBookings :
          /\ LowestIdle(p) /\ InFlight = 0 /\ Len(store) < MaxRows
          /\ BookBegin(p, b)
    \/ \E p \in DOMAIN procs : BookEnd(p)
    \/ \E p \in DOMAIN procs, r \in GateMoves : LowestIdle(p) /\ MoveBegin(p, r)
    \/ \E p \in DOMAIN procs : MoveScan(p)
    \/ \E p \in DOMAIN procs : MoveEnd(p)

SpecGate == Init /\ [][NextGate]_vars

----------------------------------------------------------------------------
(* The overlap tests side by side: a pair of intervals is drawn, and each  *)
(* formulation of the code is applied to it                                *)

Intervals == {iv \in [start : 0..MaxHour, end : 0..MaxHour] : iv.start < iv.end}

InitOverlap ==
    /\ store = << >>
    /\ today = 5
    /\ procs = [p \in 1..MaxProcs |-> Idle]
    /\ \E a \in Intervals, b \in Intervals :
          last = [op |-> "intervals", a |-> a, b |-> b]

\* a is the candidate interval, b the interval of a stored row
CompareOverlaps ==
    /\ last.op = "intervals"
    /\ last' = [op |-> "overlap", a |-> last.a, b |-> last.b,
                admin |-> overlap(last.a.start, last.a.end,
                                  last.b.start, last.b.end),
                helper |-> overlaps(last.a.start, last.a.end,
                                    last.b.start, last.b.end),
                sql |-> SqlOverlap([start_hour |-> last.b.start,
                                    end_hour |-> last.b.end],
                                   last.a.start, last.a.end),
                loop |-> wouldOverlap({[start_hour |-> last.b.start,
                                        end_hour |-> last.b.end]},
                                      last.a.start, last.a.end)]
    /\ UNCHANGED <<store, today, procs>>

NextOverlap == CompareOverlaps

SpecOverlap == InitOverlap /\ [][NextOverlap]_vars

----------------------------------------------------------------------------
(* Claims *)

ActiveRows == {i \in Ids(store) : store[i].status = "active"}

\* the row a request targets by id
RowOf(id) == CHOOSE i \in Ids(store) : store[i].id = id

\* C1: with requests handled one at a time, no two active reservations of
\* the same calendar day have overlapping [start_hour, end_hour) intervals
C1_NoDoubleBooking ==
    \A i, j \in ActiveRows :
        (i # j /\ DayOf(store[i].date) = DayOf(store[j].date))
            => ~overlap(store[i].start_hour, store[i].end_hour,
                        store[j].start_hour, store[j].end_hour)

\* C2: of two booking submissions for the same date and overlapping hours that
\* are handled concurrently, at most one becomes an active reservation
C2_AtMostOneActive ==
    \A i, j \in Ids(store) :
        (/\ i # j
         /\ store[i].date = store[j].date
         /\ SqlOverlap(store[i], store[j].start_hour, store[j].end_hour))
            => ~(store[i].status = "active" /\ store[j].status = "active")

\* C3: every reservation in the store starts at or after OPEN_HOUR and ends
\* at or before CLOSE_HOUR
C3_WithinOperatingHours ==
    \A i \in Ids(store) :
        store[i].start_hour >= OPEN_HOUR /\ store[i].end_hour <= CLOSE_HOUR

\* an accepted move has put a reservation on another date, where it ends
\* exactly at closing time
C3_Witness ==
    /\ last.op = "move" /\ last.code = 200
    /\ store[RowOf(last.moved.id)].end_hour = CLOSE_HOUR
    /\ store[RowOf(last.moved.id)].date # last.moved.date

\* the last request was a slot query that got a slot list back
SlotsAnswered == last.op = "slots" /\ last.code = 200 /\ last.reason = ""

\* the active reservations of the calendar day a date string denotes
ActiveOnDay(date) == {i \in ActiveRows : DayOf(store[i].date) = DayOf(date)}

\* C4: a returned slot is 'booked' if and only if its interval
\* [start_hour, start_hour + duration_hours) overlaps an active reservation
\* of the queried day
C4_BookedIffOverlap ==
    SlotsAnswered =>
        \A k \in DOMAIN last.slots :
            (last.slots[k].status = "booked")
                <=> \E i \in ActiveOnDay(last.date) :
                        overlap(last.slots[k].start_hour,
                                last.slots[k].start_hour + last.duration_hours,
                                store[i].start_hour, store[i].end_hour)

\* C5: no returned slot ends after CLOSE_HOUR
C5_NoSlotPastClose ==
    last.op = "slots" =>
        \A k \in DOMAIN last.slots : last.slots[k].end_hour <= CLOSE_HOUR

\* C6: with exactly one active reservation [s, e) on the queried day and
\* duration_hours = 1, there is one slot for each hour OPEN_HOUR..CLOSE_HOUR-1,
\* 'booked' for the hours s..e-1 and 'available' for the others
C6_OneReservationHourly ==
    (SlotsAnswered /\ last.duration_hours = 1
        /\ Cardinality(ActiveOnDay(last.date)) = 1)
    => LET r == store[CHOOSE i \in ActiveOnDay(last.date) : TRUE] IN
       /\ Len(last.slots) = CLOSE_HOUR - OPEN_HOUR
       /\ \A k \in DOMAIN last.slots :
            /\ last.slots[k].start_hour = OPEN_HOUR + k - 1
            /\ last.slots[k].status =
                 IF r.start_hour <= OPEN_HOUR + k - 1 /\ OPEN_HOUR + k - 1 < r.end_hour
                    THEN "booked" ELSE "available"

\* C7: a booking request whose duration_hours is not the duration of its
\* (allowlisted) service is rejected and the store stays as it was, whatever
\* its other fields are
C7_MismatchRejected ==
    \A b \in ValidateRequests :
        (b.service \in DOMAIN SERVICES /\ b.duration_hours # SERVICES[b.service])
            => /\ BookResult(store, today, b).store = store
               /\ BookResult(store, today, b).resp.code = 400

\* a request has been rejected for its duration while reservations exist
C7_Witness ==
    /\ last.op = "book" /\ last.code = 400 /\ last.error = "Duration mismatch"
    /\ Len(store) > 0

\* C8: a cancel request that reports success has turned an active
\* reservation into a cancelled one (so a cancel of a missing or already
\* cancelled id is not answered with success)
C8_CancelSucceedsOnlyOnActive ==
    [][(last'.op \in {"cancel", "admin_cancel"} /\ last'.code = 200)
        => \E i \in Ids(store) : /\ store[i].status = "active"
                                 /\ store'[i].status = "cancelled"]_vars

\* C9: a reservation whose status is cancelled keeps that status in every
\* later state
C9_CancelledIsTerminal ==
    [][\A i \in Ids(store) :
        store[i].status = "cancelled"
            => i \in Ids(store') /\ store'[i].id = store[i].id
               /\ store'[i].status = "cancelled"]_vars

\* a move of a cancelled reservation has been refused, and the reservation
\* is still cancelled
C9_Witness ==
    /\ last.op = "move" /\ last.code = 400
    /\ last.error = "Only active bookings can be moved."
    /\ \E i \in Ids(store) : store[i].status = "cancelled"

\* C10: a move of an active reservation to a weekend day inside the window
\* and to hours inside [OPEN_HOUR, CLOSE_HOUR] is accepted whenever no other
\* active reservation of that calendar day overlaps the new interval
C10_MoveIgnoresOwnInterval ==
    \A r \in MoveCore :
        (/\ r.id \in Ids(store)
         /\ store[r.id].status = "active"
         /\ isWeekend(r.date)
         /\ DayOf(r.date) - today \in 0..WINDOW_DAYS
         /\ r.start_hour >= OPEN_HOUR
         /\ r.start_hour + store[r.id].duration_hours <= CLOSE_HOUR
         /\ \A j \in ActiveRows :
               (j # r.id /\ DayOf(store[j].date) = DayOf(r.date))
                 => ~overlap(r.start_hour, r.start_hour + store[r.id].duration_hours,
                             store[j].start_hour, store[j].end_hour))
        => MoveResult(store, today, r).resp.code = 200

\* an accepted move has shifted a reservation by an hour, on the same date,
\* into an interval that overlaps the one it had
C10_Witness ==
    /\ last.op = "move" /\ last.code = 200
    /\ LET now == store[RowOf(last.moved.id)] IN
        /\ now.date = last.moved.date
        /\ now.start_hour # last.moved.start_hour
        /\ overlap(now.start_hour, now.end_hour,
                   last.moved.start_hour, last.moved.end_hour)

\* C11: a booking submission or a move that is answered with a rejection
\* leaves the store exactly as it was
C11_RejectionWritesNothing ==
    [][(last'.op \in {"book", "move"} /\ last'.code \notin {200, 201})
            => store' = store]_vars

\* a submission has failed at the INSERT while reservations exist
C11_Witness ==
    /\ last.op = "book" /\ last.code = 500
    /\ last.error = "Failed to save booking"
    /\ Len(store) > 0

\* C14: whatever the notifier does, an accepted booking is persisted as an
\* active reservation and answered with the success response, and the store
\* and the answer are those of a submission without notifier
C14_NotifierNeverChangesResult ==
    \A b \in NotifiedBookings :
        LET res == BookResult(store, today, b)
            quiet == BookResult(store, today, [b EXCEPT !.notify = "unconfigured"])
        IN
        /\ res.store = quiet.store
        /\ res.resp.code = quiet.resp.code
        /\ res.resp.id = quiet.resp.id
        /\ (BookCheck(store, today, b).error = Pass /\ b.fault # "write")
              => /\ res.resp.code = 201
                 /\ res.store[res.resp.id].status = "active"

\* a booking was accepted although the notifier's fetch threw
C14_Witness ==
    /\ last.op = "book" /\ last.code = 201 /\ last.notice = "logged"
    /\ store[RowOf(last.id)].status = "active"

\* the date of a slot query passes the calendar policy of the day
Bookable(date, day) ==
    /\ date.form = "iso"
    /\ UTCDay(date.day) \in {0, 6}
    /\ date.day - day \in 0..WINDOW_DAYS

\* C15: a slot query whose store read fails is answered with a server error,
\* by either slot handler; a failing store never yields a successful
\* response, and a query that never reads the store is answered as without
\* the failure
C15_ReadFaultIsServerError ==
    \A q \in FaultQueries :
        q.fault = "read" =>
            LET sound == [q EXCEPT !.fault = "none"] IN
            IF Bookable(q.date, today)
                THEN /\ SlotsResult(store, today, q).code = 500
                     /\ SlotsResultV2(store, today, q).code = 500
                ELSE /\ SlotsResult(store, today, q) = SlotsResult(store, today, sound)
                     /\ SlotsResultV2(store, today, q)
                            = SlotsResultV2(store, today, sound)

\* a slot query has been answered with a server error while reservations exist
C15_Witness ==
    /\ last.op = "slots" /\ last.code = 500
    /\ ActiveRows # {}

\* the calendar day is a Saturday or Sunday between the day and 30 days later
WithinPolicy(calendarDay, day) ==
    /\ calendarDay % 7 \in {0, 6}
    /\ calendarDay - day >= 0
    /\ calendarDay - day <= 30

\* C12: a slot query (slots.js lines 58-148) for a date outside the calendar
\* policy is answered 200 with no slots and a reason: 'weekday' for a date
\* that is no Saturday or Sunday, 'past' for a weekend day before today,
\* 'too_far' for a weekend day more than 30 days ahead; only a weekend day
\* 0..30 days ahead gets slots
C12_PolicyFailureIsEmptySuccess ==
    \A q \in CalendarQueries :
        LET res == SlotsResult(store, today, q)
            weekend == q.date.day % 7 \in {0, 6}
            diff == q.date.day - today
        IN
        /\ ~WithinPolicy(q.date.day, today)
              => /\ res.code = 200 /\ res.error = "" /\ res.slots = << >>
                 /\ res.reason = IF ~weekend THEN "weekday"
                                  ELSE IF diff < 0 THEN "past" ELSE "too_far"
        /\ res.slots # << >> => WithinPolicy(q.date.day, today)

\* a query got 'past' for a day on which a reservation is stored
C12_Witness ==
    /\ last.op = "slots" /\ last.code = 200 /\ last.reason = "past"
    /\ \E i \in ActiveRows : DayOf(store[i].date) < today

\* C13: the step that accepts a booking or a move stores a date that is a
\* Saturday or Sunday between today and today + 30 days
C13_AcceptedDateWithinPolicy ==
    [][(today' = today) =>
        /\ (last'.op = "book" /\ last'.code = 201)
              => WithinPolicy(DayOf(store'[last'.id].date), today)
        /\ (last'.op = "move" /\ last'.code = 200)
              => WithinPolicy(DayOf(store'[last'.moved.id].date), today)]_vars

\* a move to the last day of the window was accepted
C13_Witness ==
    /\ last.op = "move" /\ last.code = 200
    /\ DayOf(store[RowOf(last.moved.id)].date) - today = WINDOW_DAYS

\* C20: a move to a date that is no Saturday or Sunday, is before today or
\* more than 30 days ahead, or to hours outside [8, 20) with the record's
\* duration, is rejected and writes nothing; a move that passes these tests
\* on its new date and meets no other active reservation there is accepted,
\* whatever the record's present date is
C20_MovePolicyOnNewDate ==
    \A r \in CalendarMoves :
        LET res == MoveResult(store, today, r)
            known == r.id \in Ids(store)
            end_hour == r.start_hour + store[r.id].duration_hours
            inHours == r.start_hour >= 8 /\ end_hour <= 20
        IN
        /\ (~WithinPolicy(DayOf(r.date), today) \/ (known /\ ~inHours))
              => res.store = store /\ res.resp.code # 200
        /\ (/\ WithinPolicy(DayOf(r.date), today)
             /\ known /\ inHours
             /\ store[r.id].status = "active"
             /\ \A i \in ActiveOn(store, r.date) :
                    i = r.id \/ ~overlap(r.start_hour, end_hour,
                                         store[i].start_hour, store[i].end_hour))
              => res.resp.code = 200

\* a reservation whose own date was already past has been moved
C20_Witness ==
    /\ last.op = "move" /\ last.code = 200
    /\ DayOf(last.moved.date) < today

\* the hours of the half-open interval [s, e)
HoursOf(s, e) == s..(e - 1)

\* C16: overlap is symmetric in its two intervals and true exactly when the
\* half-open intervals share an hour, for every stored reservation against
\* every interval within the operating hours; intervals that share only an
\* endpoint do not overlap, identical intervals do
C16_OverlapIsIntervalIntersection ==
    /\ \A i \in Ids(store) :
         \A s \in OPEN_HOUR..CLOSE_HOUR, e \in OPEN_HOUR..CLOSE_HOUR :
            s < e =>
                LET a == store[i].start_hour
                    b == store[i].end_hour
                IN
                /\ overlap(s, e, a, b) = overlap(a, b, s, e)
                /\ overlap(s, e, a, b) <=> (HoursOf(s, e) \cap HoursOf(a, b) # {})
                /\ overlap(a, b, a, b)
    /\ ~overlap(8, 10, 10, 12)
    /\ overlap(8, 10, 9, 11)
    /\ overlap(8, 10, 8, 10)

\* a move was accepted into hours that begin where another active
\* reservation of the same date ends
C16_Witness ==
    /\ last.op = "move" /\ last.code = 200
    /\ \E j \in ActiveRows :
          /\ store[j].id # last.moved.id
          /\ store[j].date = store[RowOf(last.moved.id)].date
          /\ store[j].end_hour = store[RowOf(last.moved.id)].start_hour

\* the validation step of a rejection text of book.js, in the order of the
\* specification: 1 structure, 2 customer fields, 3 closing hour, 4 calendar,
\* 5 overlap; 0 if the text is none of them
StepOfError(error) ==
    IF error \in {"Missing or invalid date (expect YYYY-MM-DD)",
                  "start_hour must be between 8 and 19", "Unknown service",
                  "Duration mismatch"} THEN 1
    ELSE IF error \in {"Name is required", "Phone is required",
                       "Vehicle is required"} THEN 2
    ELSE IF error = "Booking would end past closing" THEN 3
    ELSE IF error \in {"Invalid date", "Bookings are only available on weekends",
                       "Cannot book a date in the past",
                       "Bookings can only be made up to 30 days ahead"} THEN 4
    ELSE IF error = "That time slot is no longer available" THEN 5
    ELSE 0

\* the first step of that order which the submission fails, 6 if none
FirstFailingStep(b) ==
    IF \/ b.date.form \notin {"iso", "invalid"}
       \/ b.start_hour = NaN \/ b.start_hour < 8 \/ b.start_hour >= 20
       \/ b.service \notin DOMAIN SERVICES
       \/ b.duration_hours # SERVICES[b.service] THEN 1
    ELSE IF b.name = "" \/ b.phone = "" \/ b.vehicle = "" THEN 2
    ELSE IF b.start_hour + b.duration_hours > 20 THEN 3
    ELSE IF b.date.form # "iso" \/ ~WithinPolicy(b.date.day, today) THEN 4
    ELSE IF \E i \in ActiveOn(store, b.date) :
                HoursOf(b.start_hour, b.start_hour + b.duration_hours)
                    \cap HoursOf(store[i].start_hour, store[i].end_hour) # {} THEN 5
    ELSE 6

\* C17: book.js rejects a submission with the reason of the first step it
\* fails in the order structure, customer fields, closing hour, calendar,
\* overlap; a submission that lacks a customer field and would end after
\* CLOSE_HOUR is rejected for the field
C17_FirstFailingStepReported ==
    \A b \in ValidateRequests :
        FirstFailingStep(b) < 6
            => StepOfError(BookResult(store, today, b).resp.error)
                    = FirstFailingStep(b)

\* the rejection texts of the conflict outcomes: an overlap with an active
\* reservation, a cancel or a move of a missing or non-active record
ConflictErrors ==
    {"That time slot is no longer available",
     "Target time is already booked.",
     "Booking not found or already cancelled",
     "Booking not found.",
     "Only active bookings can be moved."}

\* the result codes that malformed or policy-violating requests get
ValidationCodes ==
    {BookResult(store, today, b).resp.code : b \in DefectBookings}
        \cup {MoveResult(store, today, r).resp.code : r \in DefectMoves}

\* the result codes that well-formed requests get whose first store
\* statement fails
StoreFailureCodes ==
    {BookResult(store, today, b).resp.code :
        b \in {c \in FaultBookings :
                    c.fault = "read" /\ BookValidate(c, today) = Pass}}
        \cup {MoveResult(store, today, r).resp.code :
                r \in {m \in FaultMoves : m.fault = "read"}}
        \cup {CancelPostResult(store, r).resp.code :
                r \in [token : {ADMIN_TOKEN}, id : 1..MaxRows, fault : {"read"}]}

\* C18: a conflict outcome never has the result code of a validation error
\* or of a store failure, and a store failure never has the result code of a
\* validation error
C18_CategoriesHaveDistinctCodes ==
    /\ last.error \in ConflictErrors
          => last.code \notin (ValidationCodes \cup StoreFailureCodes)
    /\ ValidationCodes \cap StoreFailureCodes = {}

\* C19: at every administrative entry point a request whose token is not
\* ADMIN_TOKEN is answered 401, returns no booking and leaves the store as
\* it was
C19_AdminNeedsToken ==
    /\ \A r \in AdminRequests :
          r.token # ADMIN_TOKEN =>
            /\ AdminCancelResult(store, r).store = store
            /\ AdminCancelResult(store, r).resp.code = 401
            /\ CancelPostResult(store, r).store = store
            /\ CancelPostResult(store, r).resp.code = 401
            /\ CancelPostV1Result(store, r).store = store
            /\ CancelPostV1Result(store, r).resp.code = 401
    /\ \A r \in AuthMoves :
          r.token # ADMIN_TOKEN =>
            /\ MoveResult(store, today, r).store = store
            /\ MoveResult(store, today, r).resp.code = 401
    /\ \A r \in ListRequests :
          r.token # ADMIN_TOKEN =>
            /\ AdminListResult(store, r).code = 401
            /\ AdminListResult(store, r).bookings = {}
            /\ BookingsResult(store, r).code = 401
            /\ BookingsResult(store, r).bookings = {}
            /\ AdminBookingResult(store, r).code = 401
            /\ AdminBookingResult(store, r).bookings = {}

\* C21: a booking submission or a slot query with a malformed date, start
\* hour, duration or service is answered 400 without any access to the store:
\* the answer is the one an empty store would give, a store whose reads and
\* writes fail gives it too, and the store stays as it was
C21_MalformedNeverReachesStore ==
    /\ \A b \in MalformedBookings :
          LET res == BookResult(store, today, b) IN
          /\ res.store = store
          /\ res.resp.code = 400
          /\ res.resp = BookResult(<< >>, today, [b EXCEPT !.fault = "none"]).resp
    /\ \A q \in MalformedQueries :
          LET res == SlotsResult(store, today, q) IN
          /\ res.code = 400
          /\ res = SlotsResult(<< >>, today, [q EXCEPT !.fault = "none"])

\* a submission for an unknown service was refused while reservations exist
C21_Witness ==
    /\ last.op = "book" /\ last.code = 400 /\ last.error = "Unknown service"
    /\ ActiveRows # {}

\* C22: the slots of an answered slot query are in strictly ascending order
\* of start_hour (so no start hour appears twice), every start hour lies in
\* [OPEN_HOUR, CLOSE_HOUR) and every slot ends duration_hours after it starts
C22_SlotsStrictlyAscending ==
    SlotsAnswered =>
        \A k \in DOMAIN last.slots :
            /\ last.slots[k].start_hour >= OPEN_HOUR
            /\ last.slots[k].start_hour < CLOSE_HOUR
            /\ last.slots[k].end_hour
                    = last.slots[k].start_hour + last.duration_hours
            /\ k > 1 => last.slots[k].start_hour > last.slots[k - 1].start_hour

\* a slot list with a gap: a start hour was left out and a later one, which
\* ends after closing time, was returned
C22_Witness ==
    /\ SlotsAnswered
    /\ \E k \in DOMAIN last.slots :
          /\ k > 1
          /\ last.slots[k].start_hour > last.slots[k - 1].start_hour + 1
          /\ last.slots[k].end_hour > CLOSE_HOUR

\* start_hour < end_hour = start_hour + duration_hours, and duration_hours
\* is the duration of the service
WellShaped(row) ==
    /\ row.start_hour < row.end_hour
    /\ row.end_hour = row.start_hour + row.duration_hours
    /\ row.service \in DOMAIN SERVICES
    /\ row.duration_hours = SERVICES[row.service]

\* the bookings of Saturday 6 with every duration, right or wrong
ShapeBookings ==
    {[b EXCEPT !.duration_hours = n] :
        b \in DayBookings, n \in {NaN} \cup (MIN_DURATION - 1)..4}

\* C23: every reservation in the store, active or cancelled, has
\* start_hour < end_hour = start_hour + duration_hours and the duration of
\* its service; a submission is accepted only with such a record, and an
\* accepted move keeps duration_hours and sets end_hour to the new
\* start_hour plus duration_hours
C23_RecordsWellShaped ==
    /\ \A i \in Ids(store) : WellShaped(store[i])
    /\ \A b \in ShapeBookings :
          LET res == BookResult(store, today, b) IN
          res.resp.code = 201 => WellShaped(res.store[res.resp.id])
    /\ \A r \in DayMoves :
          LET res == MoveResult(store, today, r) IN
          res.resp.code = 200 =>
            /\ res.store[r.id].duration_hours = store[r.id].duration_hours
            /\ res.store[r.id].start_hour = r.start_hour
            /\ res.store[r.id].end_hour = r.start_hour + store[r.id].duration_hours

\* a two-hour reservation has been moved to another start hour
C23_Witness ==
    /\ last.op = "move" /\ last.code = 200
    /\ last.moved.duration_hours = 2
    /\ store[RowOf(last.moved.id)].start_hour # last.moved.start_hour

\* the rows of the store that a step changes
Changed == {i \in Ids(store) : store'[i] # store[i]}

\* C24: no step removes a record or changes its id or created_at; an
\* accepted cancel changes at most the status of one record, an accepted move
\* only date, start_hour and end_hour of the record it targets, and neither
\* adds a record or touches another one
C24_FrameOfAdminOperations ==
    [][/\ Len(store') >= Len(store)
       /\ \A i \in Ids(store) :
             /\ store'[i].id = store[i].id
             /\ store'[i].created_at = store[i].created_at
       /\ (last'.op \in {"cancel", "admin_cancel"} /\ last'.code = 200)
             => /\ Len(store') = Len(store)
                /\ Cardinality(Changed) <= 1
                /\ \A i \in Changed :
                      store'[i] = [store[i] EXCEPT !.status = "cancelled"]
       /\ (last'.op = "move" /\ last'.code = 200)
             => /\ Len(store') = Len(store)
                /\ \A i \in Changed :
                      /\ store[i].id = last'.moved.id
                      /\ store'[i] = [store[i] EXCEPT
                                        !.date = store'[i].date,
                                        !.start_hour = store'[i].start_hour,
                                        !.end_hour = store'[i].end_hour]]_vars

\* a reservation has been moved while the store holds a cancelled one
C24_Witness ==
    /\ last.op = "move" /\ last.code = 200
    /\ store[RowOf(last.moved.id)] # last.moved
    /\ \E i \in Ids(store) : store[i].status = "cancelled"

\* C25: a booking submission reaches its INSERT, and a move its UPDATE, only
\* by the step that reads the active reservations of the date and finds no
\* overlap; the next step of that request is the write, which tests nothing
\* more and answers with success
C25_OverlapCheckIsLastGate ==
    [][\A p \in DOMAIN procs :
        /\ (procs[p].pc # "insert" /\ procs'[p].pc = "insert")
              => /\ procs[p].pc = "idle"
                 /\ BookOverlapCount(store, procs'[p].b) = 0
                 /\ store' = store
        /\ (procs[p].pc # "update" /\ procs'[p].pc = "update")
              => /\ procs[p].pc = "scan"
                 /\ ~MoveConflict(store, procs[p].r.id, procs[p].r.date,
                                  procs[p].r.start_hour,
                                  procs[p].r.start_hour
                                      + procs[p].booking.duration_hours)
                 /\ store' = store
        /\ (procs[p].pc = "insert" /\ procs'[p].pc # "insert")
              => /\ last'.op = "book" /\ last'.code = 201
                 /\ store' = BookInsert(store, today, procs[p].b)
        /\ (procs[p].pc = "update" /\ procs'[p].pc # "update")
              => /\ last'.op = "move" /\ last'.code = 200
                 /\ store'[procs[p].r.id].start_hour = procs[p].r.start_hour]_vars

\* a submission was accepted although a move that began after its overlap
\* check had taken its hour in between
C25_Witness ==
    /\ last.op = "book" /\ last.code = 201
    /\ \E i \in ActiveRows :
          /\ store[i].id # last.id
          /\ store[i].date = store[RowOf(last.id)].date
          /\ store[i].start_hour = store[RowOf(last.id)].start_hour

\* C26: in the answer to a slot query, no slot whose start_hour plus the
\* queried duration exceeds CLOSE_HOUR is 'available': such a start hour is
\* left out or returned as 'booked'
C26_PastCloseNeverAvailable ==
    last.op = "slots" =>
        \A k \in DOMAIN last.slots :
            last.slots[k].start_hour + last.duration_hours > CLOSE_HOUR
                => last.slots[k].status = "booked"

\* of the start hours that end after closing, one was returned as 'booked'
\* and another was left out
C26_Witness ==
    /\ SlotsAnswered
    /\ \E k \in DOMAIN last.slots :
          /\ last.slots[k].start_hour + last.duration_hours > CLOSE_HOUR
          /\ last.slots[k].status = "booked"
    /\ \E h \in OPEN_HOUR..(CLOSE_HOUR - 1) :
          /\ h + last.duration_hours > CLOSE_HOUR
          /\ \A k \in DOMAIN last.slots : last.slots[k].start_hour # h

\* the submission of a customer for a returned slot
SubmissionFor(date, start_hour, service) ==
    [date |-> date, start_hour |-> start_hour, service |-> service,
     duration_hours |-> SERVICES[service], name |-> "Ann", phone |-> "Ann",
     vehicle |-> "Ann", fault |-> "none", notify |-> "sent"]

\* C27: while the store stays as the slot query read it, a submission for a
\* start hour the query returned as 'available', for a service of the queried
\* duration and with all customer fields, is accepted
C27_AvailableSlotIsBookable ==
    SlotsAnswered =>
        \A k \in DOMAIN last.slots, sv \in DOMAIN SERVICES :
            (last.slots[k].status = "available"
                /\ SERVICES[sv] = last.duration_hours)
            => BookResult(store, today,
                          SubmissionFor(last.date, last.slots[k].start_hour, sv)
                         ).resp.code = 201

\* no request is being handled
Quiescent == \A p \in DOMAIN procs : procs[p].pc = "idle"

\* C28: once a move and a booking submission, or two moves, that were handled
\* concurrently have completed, no two active reservations of the same date
\* have overlapping intervals
C28_MoveRaceKeepsDisjoint ==
    Quiescent =>
        \A i \in ActiveRows, j \in ActiveRows :
            (i < j /\ store[i].date = store[j].date)
                => \/ store[i].end_hour <= store[j].start_hour
                   \/ store[j].end_hour <= store[i].start_hour

\* C29: a step never changes date, start_hour or end_hour of a reservation
\* that is cancelled, however a move and a cancel of the same reservation
\* are interleaved
C29_CancelledNeverMoved ==
    [][\A i \in Ids(store) :
        store[i].status = "cancelled"
            => /\ store'[i].date = store[i].date
               /\ store'[i].start_hour = store[i].start_hour
               /\ store'[i].end_hour = store[i].end_hour]_vars

\* no active reservation of the date's calendar day, other than the record
\* with the given id, overlaps [s, e)
FreeOfActive(date, s, e, id) ==
    \A i \in ActiveOnDay(date) :
        store[i].id = id \/ store[i].end_hour <= s \/ e <= store[i].start_hour

\* C30: cancelled reservations block nothing.  A submission, or a move of an
\* active reservation, within the operating hours whose interval overlaps no
\* active reservation of the day is accepted, whatever cancelled
\* reservations lie there; and a slot that ends by CLOSE_HOUR is 'booked'
\* only if its start hour lies in an active reservation of the day
C30_CancelFreesInterval ==
    /\ \A b \in DayBookings :
          (/\ b.start_hour + b.duration_hours <= CLOSE_HOUR
           /\ FreeOfActive(b.date, b.start_hour,
                           b.start_hour + b.duration_hours, 0))
              => BookResult(store, today, b).resp.code = 201
    /\ \A r \in FreeMoves :
          (/\ r.id \in ActiveRows
           /\ r.start_hour >= OPEN_HOUR
           /\ r.start_hour + store[r.id].duration_hours <= CLOSE_HOUR
           /\ FreeOfActive(r.date, r.start_hour,
                           r.start_hour + store[r.id].duration_hours, r.id))
              => MoveResult(store, today, r).resp.code = 200
    /\ \A q \in FreeQueries :
          LET slots == SlotsResult(store, today, q).slots IN
          \A k \in DOMAIN slots :
              (slots[k].status = "booked" /\ slots[k].end_hour <= CLOSE_HOUR)
                  => \E i \in ActiveOnDay(q.date) :
                        /\ store[i].start_hour <= slots[k].start_hour
                        /\ slots[k].start_hour < store[i].end_hour

\* a submission was accepted for hours that a cancelled reservation of the
\* same date holds
C30_Witness ==
    /\ last.op = "book" /\ last.code = 201
    /\ \E i \in Ids(store) :
          /\ store[i].status = "cancelled"
          /\ store[i].date = store[RowOf(last.id)].date
          /\ overlap(store[i].start_hour, store[i].end_hour,
                     store[RowOf(last.id)].start_hour,
                     store[RowOf(last.id)].end_hour)

\* C31: for every two intervals with start < end within 0..MaxHour, the
\* overlap function of admin.js, the overlaps helper and the wouldOverlap
\* loop of the slot handlers and the SQL filter of book.js give the same
\* answer, which is whether the half-open intervals share an hour
C31_OverlapFormulationsAgree ==
    last.op = "overlap" =>
        /\ last.admin = last.helper
        /\ last.admin = last.sql
        /\ last.admin = last.loop
        /\ last.admin <=> (HoursOf(last.a.start, last.a.end)
                                \cap HoursOf(last.b.start, last.b.end) # {})

\* the tests were applied to two intervals that share exactly one hour, the
\* last of one and the first of the other
C31_Witness ==
    /\ last.op = "overlap"
    /\ last.a.end = last.b.start + 1
    /\ last.admin /\ last.helper /\ last.sql /\ last.loop

====
